---- MODULE Spec2Model ----
(***************************************************************************)
(* Model of DouyinVideoDownloader.get_video_info and of the two Playwright *)
(* helpers it calls (src/down_and_upload/Untitled-1.py).                    *)
(*                                                                         *)
(* Text is a sequence of tokens.  A token is one character or a fixed run  *)
(* of characters that the regular expressions of the program treat as a    *)
(* unit:                                                                   *)
(*   "desc:" "playAddr:" "srcNoMark:" "downloadAddr:"                     *)
(*              the quoted key, its colon and the opening quote of the     *)
(*              value, e.g. the eight characters  "desc":"                 *)
(*   "Q"        a double quote        "apos"   a single quote              *)
(*   "sp"       a blank               "nl"     a line break                *)
(*   "http"     http:// or https://                                        *)
(*   "bs"       a backslash           "u002F"  the five characters u002F   *)
(*   "/" "v" "a" ".mp4"   themselves ("a" is any other character)          *)
(* Every key token begins and ends with a double quote.                    *)
(***************************************************************************)
EXTENDS Naturals, Sequences, FiniteSets

\* Bounds: how many fragments a fetched body, a script text and a rendered
\* snapshot are built from.
MaxBodyParts == 2
MaxScriptParts == 2
MaxRenderParts == 2

VARIABLES
  pc,            \* position in get_video_info and its helpers
  exc,           \* the RequestException caught at line 68, if any
  status,        \* resp.status_code
  html,          \* resp.text
  title,         \* local title of get_video_info
  play_addr,     \* local play_addr of get_video_info
  src,           \* local src of _extract_playaddr_with_playwright
  scripts_text,  \* local scripts_text of _extract_playaddr_with_playwright
  rendered,      \* local rendered of get_video_info
  result,        \* the VideoInfo returned
  domBrowser,    \* browser launched at line 142
  domContext,    \* context opened at line 144
  snapBrowser,   \* browser launched at line 120
  calls,         \* the calls made so far (collaborators and stages)
  log            \* the warnings and errors logged so far

vars == <<pc, exc, status, html, title, play_addr, src, scripts_text,
          rendered, result, domBrowser, domContext, snapBrowser, calls, log>>

-----------------------------------------------------------------------------
(* Optional values *)

NoneSeq == [tag |-> "none", val |-> <<>>]
NoneStr == [tag |-> "none", val |-> ""]
Some(v) == [tag |-> "some", val |-> v]

\* Python truthiness of an Optional[str]: neither None nor the empty string.
Truthy(o) == o.tag = "some" /\ o.val # <<>>

-----------------------------------------------------------------------------
(* Character classes *)

KeyTokens == {"desc:", "playAddr:", "srcNoMark:", "downloadAddr:"}

\* the token holds a double quote (and then starts with one)
IsQuote(t) == t = "Q" \/ t \in KeyTokens

\* \s
IsSpace(t) == t = "sp" \/ t = "nl"

\* [^\s"']
IsUrlChar(t) == ~IsQuote(t) /\ ~IsSpace(t) /\ t # "apos"

-----------------------------------------------------------------------------
(* str.replace('\\u002F', '/') *)

RECURSIVE Replace(_)
Replace(s) ==
  IF Len(s) < 2 THEN s
  ELSE IF s[1] = "bs" /\ s[2] = "u002F"
       THEN <<"/">> \o Replace(Tail(Tail(s)))
       ELSE <<s[1]>> \o Replace(Tail(s))

-----------------------------------------------------------------------------
(* re.search: the leftmost match, as the regular expressions find it *)

\* [^"]* from position k: the position of the first token holding a quote
RECURSIVE SkipNonQuote(_, _)
SkipNonQuote(s, k) ==
  IF k > Len(s) \/ IsQuote(s[k]) THEN k ELSE SkipNonQuote(s, k + 1)

\* .*? before a quote: the first token that is a quote or a line break
RECURSIVE SkipDot(_, _)
SkipDot(s, k) ==
  IF k > Len(s) \/ IsQuote(s[k]) \/ s[k] = "nl" THEN k ELSE SkipDot(s, k + 1)

\* [^\s"']* from position k
RECURSIVE SkipUrlChars(_, _)
SkipUrlChars(s, k) ==
  IF k > Len(s) \/ ~IsUrlChar(s[k]) THEN k ELSE SkipUrlChars(s, k + 1)

\* the last ".mp4" in lo..k (greedy + with backtracking), 0 if none
RECURSIVE LastMp4(_, _, _)
LastMp4(s, k, lo) ==
  IF k < lo THEN 0
  ELSE IF s[k] = ".mp4" THEN k ELSE LastMp4(s, k - 1, lo)

\* "desc":"(.*?)" tried at position i
MatchDesc(s, i) ==
  LET j == SkipDot(s, i + 1)
  IN IF s[i] = "desc:" /\ j <= Len(s) /\ IsQuote(s[j])
     THEN Some(SubSeq(s, i + 1, j - 1))
     ELSE NoneSeq

\* "<key>":"(https?://[^"]+)" tried at position i
MatchUrlField(key, s, i) ==
  LET j == SkipNonQuote(s, i + 2)
  IN IF s[i] = key /\ i + 1 <= Len(s) /\ s[i + 1] = "http"
        /\ j > i + 2 /\ j <= Len(s)
     THEN Some(SubSeq(s, i + 1, j - 1))
     ELSE NoneSeq

\* (https?://v[^\s"']+\.mp4) tried at position i
MatchMp4(s, i) ==
  IF s[i] = "http" /\ i + 1 <= Len(s) /\ s[i + 1] = "v"
  THEN LET e == SkipUrlChars(s, i + 2)
           k == LastMp4(s, e - 1, i + 3)
       IN IF k # 0 THEN Some(SubSeq(s, i, k)) ELSE NoneSeq
  ELSE NoneSeq

PatternNames == {"desc", "playAddr", "srcNoMark", "downloadAddr", "mp4"}

MatchAt(pat, s, i) ==
  CASE pat = "desc" -> MatchDesc(s, i)
    [] pat = "playAddr" -> MatchUrlField("playAddr:", s, i)
    [] pat = "srcNoMark" -> MatchUrlField("srcNoMark:", s, i)
    [] pat = "downloadAddr" -> MatchUrlField("downloadAddr:", s, i)
    [] pat = "mp4" -> MatchMp4(s, i)

RECURSIVE SearchFrom(_, _, _)
SearchFrom(pat, s, i) ==
  IF i > Len(s) THEN NoneSeq
  ELSE LET m == MatchAt(pat, s, i)
       IN IF m # NoneSeq THEN m ELSE SearchFrom(pat, s, i + 1)

\* re.search(pat, s): group(1) of the leftmost match, or None
Search(pat, s) == SearchFrom(pat, s, 1)

-----------------------------------------------------------------------------
(* VideoInfo and the results get_video_info builds *)

\* the default title of VideoInfo and of get_video_info
Placeholder == <<"PLACEHOLDER">>

\* the fixed message of the last return of get_video_info
ExhaustedMessage == "no video URL extracted: login may be needed or the page changed"

VideoInfo(t, u, s, m) == [title |-> t, video_url |-> u, success |-> s, message |-> m]

\* str(exc) of an exception built with at most one argument
Str(e) == IF Len(e.args) = 0 THEN "" ELSE e.args[1]

NoException == [args |-> <<"(none)">>, raised |-> FALSE]
Raised(args) == [args |-> args, raised |-> TRUE]

\* faulty variant: the text of the exception is not passed on
OnRequestException_NoMessage(e) == VideoInfo(Placeholder, NoneSeq, FALSE, NoneStr)

\* return VideoInfo(success=False, message=str(exc))
OnRequestException(e) == VideoInfo(Placeholder, NoneSeq, FALSE, Some(Str(e)))

\* title = group(1) of the desc match, else the placeholder
ExtractTitle(h) ==
  LET m == Search("desc", h) IN IF m # NoneSeq THEN m.val ELSE Placeholder

\* faulty variant: the match is returned without the replace
StaticPlay_NoDecode(h) == Search("playAddr", h)

\* the static playAddr match, slash-decoded
StaticPlay(h) ==
  LET m == Search("playAddr", h)
  IN IF m # NoneSeq THEN Some(Replace(m.val)) ELSE NoneSeq

\* return VideoInfo(title=title, video_url=play, success=True)
Success(t, u) == VideoInfo(t, u, TRUE, NoneStr)

\* faulty variant: the last return carries no message
Exhausted_NoMessage == VideoInfo(Placeholder, NoneSeq, FALSE, NoneStr)

\* return VideoInfo(success=False, message='...')
Exhausted == VideoInfo(Placeholder, NoneSeq, FALSE, Some(ExhaustedMessage))

\* faulty variant: the patterns in the reverse order
ScanPatterns_Reordered == <<"mp4", "downloadAddr", "srcNoMark", "playAddr">>

\* the candidate patterns of the script scan, in the order of the for loop
ScanPatterns == <<"playAddr", "srcNoMark", "downloadAddr", "mp4">>

\* the for loop over the patterns from the k-th on: the first match, decoded
RECURSIVE ScanFrom(_, _)
ScanFrom(text, k) ==
  IF k > Len(ScanPatterns) THEN NoneSeq
  ELSE LET m == Search(ScanPatterns[k], text)
       IN IF m # NoneSeq THEN Some(Replace(m.val)) ELSE ScanFrom(text, k + 1)

ScanScripts(text) == ScanFrom(text, 1)

\* faulty variant: the src is slash-decoded like the regex captures
DomSrcValue_Decoded(s) == Some(Replace(s.val))

\* return src: the attribute as read
DomSrcValue(s) == s

\* faulty variant: the match is returned without the replace
Rescan_NoDecode(r) ==
  IF Truthy(r) THEN Search("playAddr", r.val) ELSE NoneSeq

\* if rendered: the playAddr search on the snapshot, slash-decoded
Rescan(r) ==
  IF Truthy(r)
  THEN LET m == Search("playAddr", r.val)
       IN IF m # NoneSeq THEN Some(Replace(m.val)) ELSE NoneSeq
  ELSE NoneSeq

\* browser.close() / context.close(); a close is taken not to raise
Close(b) == "closed"

\* faulty variant: leaving the with block closes nothing
PlaywrightExit_KeepsOpen(b) == b

\* Leaving `with sync_playwright() as p:`, normally or by an exception, stops
\* the Playwright driver (the __exit__ of the context manager), and the
\* stopped driver shuts down every browser it launched and their contexts.
PlaywrightExit(b) == IF b = "open" THEN "closed" ELSE b

-----------------------------------------------------------------------------
(* Inputs *)

RECURSIVE Texts(_, _)
Texts(F, n) ==
  IF n = 0 THEN {<<>>}
  ELSE LET T == Texts(F, n - 1) IN T \cup {t \o f : t \in T, f \in F}

EscapedUrl == <<"http", "a", "bs", "u002F", "a">>
PlainUrl == <<"http", "a", "/", "a">>

BodyFrags ==
  { <<"desc:", "Q">>,
    <<"desc:", "a", "Q">>,
    <<"playAddr:">> \o EscapedUrl \o <<"Q">>,
    <<"playAddr:", "a", "Q">>,
    <<"playAddr:">> \o PlainUrl,
    <<"a">> }

ScriptFrags ==
  { <<"playAddr:">> \o PlainUrl \o <<"Q">>,
    <<"srcNoMark:">> \o EscapedUrl \o <<"Q">>,
    <<"downloadAddr:", "http", "a", "/", "a", ".mp4", "Q">>,
    <<"sp", "http", "v", "bs", "u002F", "a", ".mp4", "sp">>,
    <<"a">> }

RenderFrags ==
  { <<"playAddr:">> \o EscapedUrl \o <<"Q">>,
    <<"playAddr:">> \o PlainUrl \o <<"Q">>,
    <<"a">> }

Bodies == Texts(BodyFrags, MaxBodyParts)
ScriptTexts == Texts(ScriptFrags, MaxScriptParts)
RenderedTexts == Texts(RenderFrags, MaxRenderParts)

\* el.get_attribute('src')
SrcValues == {NoneSeq, Some(<<>>), Some(PlainUrl), Some(EscapedUrl)}

Statuses == {200, 404}

RequestExceptions ==
  {Raised(<<>>), Raised(<<"timed out">>), Raised(<<"connection refused">>)}

-----------------------------------------------------------------------------
(* get_video_info *)

NoResult == VideoInfo(<<>>, NoneSeq, FALSE, NoneStr)

Init ==
  /\ pc = "fetch"
  /\ exc = NoException
  /\ status = 0
  /\ html = <<>>
  /\ title = <<>>
  /\ play_addr = NoneSeq
  /\ src = NoneSeq
  /\ scripts_text = <<>>
  /\ rendered = NoneSeq
  /\ result = NoResult
  /\ domBrowser = "none"
  /\ domContext = "none"
  /\ snapBrowser = "none"
  /\ calls = {}
  /\ log = {}

\* resp = self._get_final_response(share_url): session.get returns the
\* response whatever its status code, or raises a RequestException
Fetch ==
  /\ pc = "fetch"
  /\ calls' = calls \cup {"fetch"}
  /\ \/ \E st \in Statuses, body \in Bodies :
          /\ status' = st
          /\ html' = body
          /\ pc' = "parse"
          /\ UNCHANGED <<exc, result, log>>
     \/ \E e \in RequestExceptions :
          /\ exc' = e
          /\ result' = OnRequestException(e)
          /\ log' = log \cup {"request_failed"}
          /\ pc' = "done"
          /\ UNCHANGED <<status, html>>
  /\ UNCHANGED <<title, play_addr, src, scripts_text, rendered,
                 domBrowser, domContext, snapBrowser>>

\* the title and the static playAddr search
Parse ==
  /\ pc = "parse"
  /\ calls' = calls \cup {"parse"}
  /\ title' = ExtractTitle(html)
  /\ LET play == StaticPlay(html)
     IN IF play # NoneSeq
        THEN /\ result' = Success(title', play)
             /\ pc' = "done"
        ELSE /\ pc' = "dom_import"
             /\ UNCHANGED result
  /\ UNCHANGED <<exc, status, html, play_addr, src, scripts_text, rendered,
                 domBrowser, domContext, snapBrowser, log>>

-----------------------------------------------------------------------------
(* _extract_playaddr_with_playwright *)

\* an exception inside the with block: the block is left, the handler of
\* line 185 logs and returns None
DomRaise ==
  /\ domBrowser' = PlaywrightExit(domBrowser)
  /\ domContext' = PlaywrightExit(domContext)
  /\ log' = log \cup {"dom_failed"}
  /\ play_addr' = NoneSeq
  /\ pc' = "dom_ret"

\* a return inside the with block, after context.close(); browser.close()
DomReturn(v) ==
  /\ domContext' = PlaywrightExit(Close(domContext))
  /\ domBrowser' = PlaywrightExit(Close(domBrowser))
  /\ play_addr' = v
  /\ pc' = "dom_ret"
  /\ UNCHANGED log

DomImport ==
  /\ pc = "dom_import"
  /\ calls' = calls \cup {"extract_playaddr"}
  /\ \/ /\ pc' = "dom_launch"
        /\ UNCHANGED <<play_addr, log>>
     \/ /\ play_addr' = NoneSeq
        /\ log' = log \cup {"dom_unavailable"}
        /\ pc' = "dom_ret"
  /\ UNCHANGED <<exc, status, html, title, src, scripts_text, rendered, result,
                 domBrowser, domContext, snapBrowser>>

DomLaunch ==
  /\ pc = "dom_launch"
  /\ \/ /\ domBrowser' = "open"
        /\ pc' = "dom_context"
        /\ UNCHANGED <<domContext, log, play_addr>>
     \/ DomRaise
  /\ UNCHANGED <<exc, status, html, title, src, scripts_text, rendered, result,
                 snapBrowser, calls>>

DomNewContext ==
  /\ pc = "dom_context"
  /\ \/ /\ domContext' = "open"
        /\ pc' = "dom_page"
        /\ UNCHANGED <<domBrowser, log, play_addr>>
     \/ DomRaise
  /\ UNCHANGED <<exc, status, html, title, src, scripts_text, rendered, result,
                 snapBrowser, calls>>

DomNewPage ==
  /\ pc = "dom_page"
  /\ \/ /\ pc' = "dom_goto"
        /\ UNCHANGED <<domBrowser, domContext, log, play_addr>>
     \/ DomRaise
  /\ UNCHANGED <<exc, status, html, title, src, scripts_text, rendered, result,
                 snapBrowser, calls>>

DomGoto ==
  /\ pc = "dom_goto"
  /\ \/ /\ pc' = "dom_wait"
        /\ UNCHANGED <<domBrowser, domContext, log, play_addr>>
     \/ DomRaise
  /\ UNCHANGED <<exc, status, html, title, src, scripts_text, rendered, result,
                 snapBrowser, calls>>

\* page.wait_for_selector('video'): an exception is swallowed at line 163
DomWait ==
  /\ pc = "dom_wait"
  /\ calls' = calls \cup {"wait_for_selector"}
  /\ \/ pc' = "dom_query"
     \/ pc' = "dom_eval"
  /\ UNCHANGED <<exc, status, html, title, play_addr, src, scripts_text,
                 rendered, result, domBrowser, domContext, snapBrowser, log>>

\* el = page.query_selector('video'); if el:
DomQuery ==
  /\ pc = "dom_query"
  /\ \/ pc' = "dom_attr"
     \/ pc' = "dom_eval"
  /\ UNCHANGED <<exc, status, html, title, play_addr, src, scripts_text,
                 rendered, result, domBrowser, domContext, snapBrowser, calls, log>>

\* src = el.get_attribute('src'); if src: close and return src
DomAttr ==
  /\ pc = "dom_attr"
  /\ \/ \E s \in SrcValues :
          /\ src' = s
          /\ IF Truthy(s)
             THEN DomReturn(DomSrcValue(s))
             ELSE /\ pc' = "dom_eval"
                  /\ UNCHANGED <<domBrowser, domContext, play_addr, log>>
     \/ /\ pc' = "dom_eval"
        /\ UNCHANGED <<src, domBrowser, domContext, play_addr, log>>
  /\ UNCHANGED <<exc, status, html, title, scripts_text, rendered, result,
                 snapBrowser, calls>>

\* scripts_text = page.eval_on_selector_all('script', ...)
DomEval ==
  /\ pc = "dom_eval"
  /\ calls' = calls \cup {"eval_scripts"}
  /\ \/ \E text \in ScriptTexts :
          /\ scripts_text' = text
          /\ pc' = "dom_scan"
     \/ /\ pc' = "dom_content"
        /\ UNCHANGED scripts_text
  /\ UNCHANGED <<exc, status, html, title, play_addr, src, rendered, result,
                 domBrowser, domContext, snapBrowser, log>>

\* except Exception: scripts_text = page.content()
DomContent ==
  /\ pc = "dom_content"
  /\ \/ \E text \in ScriptTexts :
          /\ scripts_text' = text
          /\ pc' = "dom_scan"
          /\ UNCHANGED <<domBrowser, domContext, log, play_addr>>
     \/ /\ DomRaise
        /\ UNCHANGED scripts_text
  /\ UNCHANGED <<exc, status, html, title, src, rendered, result,
                 snapBrowser, calls>>

\* the for loop over the patterns, then the closes and the return
DomScan ==
  /\ pc = "dom_scan"
  /\ calls' = calls \cup {"scan"}
  /\ DomReturn(ScanScripts(scripts_text))
  /\ UNCHANGED <<exc, status, html, title, src, scripts_text, rendered, result,
                 snapBrowser>>

\* back in get_video_info: if play_addr: return the success
DomRet ==
  /\ pc = "dom_ret"
  /\ IF Truthy(play_addr)
     THEN /\ result' = Success(title, play_addr)
          /\ pc' = "done"
          /\ UNCHANGED <<src, scripts_text>>
     ELSE /\ pc' = "snap_import"
          /\ src' = NoneSeq
          /\ scripts_text' = <<>>
          /\ UNCHANGED result
  /\ UNCHANGED <<exc, status, html, title, play_addr, rendered,
                 domBrowser, domContext, snapBrowser, calls, log>>

-----------------------------------------------------------------------------
(* _render_with_playwright *)

\* an exception inside the with block: the block is left, the handler of
\* line 128 logs and returns None
SnapRaise ==
  /\ snapBrowser' = PlaywrightExit(snapBrowser)
  /\ log' = log \cup {"render_failed"}
  /\ rendered' = NoneSeq
  /\ pc' = "snap_ret"

SnapImport ==
  /\ pc = "snap_import"
  /\ calls' = calls \cup {"render"}
  /\ \/ /\ pc' = "snap_launch"
        /\ UNCHANGED <<rendered, log>>
     \/ /\ rendered' = NoneSeq
        /\ log' = log \cup {"render_unavailable"}
        /\ pc' = "snap_ret"
  /\ UNCHANGED <<exc, status, html, title, play_addr, src, scripts_text, result,
                 domBrowser, domContext, snapBrowser>>

SnapLaunch ==
  /\ pc = "snap_launch"
  /\ \/ /\ snapBrowser' = "open"
        /\ pc' = "snap_page"
        /\ UNCHANGED <<rendered, log>>
     \/ SnapRaise
  /\ UNCHANGED <<exc, status, html, title, play_addr, src, scripts_text, result,
                 domBrowser, domContext, calls>>

SnapNewPage ==
  /\ pc = "snap_page"
  /\ \/ /\ pc' = "snap_goto"
        /\ UNCHANGED <<snapBrowser, rendered, log>>
     \/ SnapRaise
  /\ UNCHANGED <<exc, status, html, title, play_addr, src, scripts_text, result,
                 domBrowser, domContext, calls>>

SnapGoto ==
  /\ pc = "snap_goto"
  /\ \/ /\ pc' = "snap_wait"
        /\ UNCHANGED <<snapBrowser, rendered, log>>
     \/ SnapRaise
  /\ UNCHANGED <<exc, status, html, title, play_addr, src, scripts_text, result,
                 domBrowser, domContext, calls>>

\* page.wait_for_load_state('networkidle')
SnapWait ==
  /\ pc = "snap_wait"
  /\ \/ /\ pc' = "snap_content"
        /\ UNCHANGED <<snapBrowser, rendered, log>>
     \/ SnapRaise
  /\ UNCHANGED <<exc, status, html, title, play_addr, src, scripts_text, result,
                 domBrowser, domContext, calls>>

\* html = page.content(); browser.close(); return html
SnapContent ==
  /\ pc = "snap_content"
  /\ \/ \E text \in RenderedTexts :
          /\ rendered' = Some(text)
          /\ snapBrowser' = PlaywrightExit(Close(snapBrowser))
          /\ pc' = "snap_ret"
          /\ UNCHANGED log
     \/ SnapRaise
  /\ UNCHANGED <<exc, status, html, title, play_addr, src, scripts_text, result,
                 domBrowser, domContext, calls>>

\* back in get_video_info: the rescan of the snapshot, or the last return
SnapRet ==
  /\ pc = "snap_ret"
  /\ LET play == Rescan(rendered)
     IN IF play # NoneSeq
        THEN result' = Success(title, play)
        ELSE result' = Exhausted
  /\ pc' = "done"
  /\ UNCHANGED <<exc, status, html, title, play_addr, src, scripts_text, rendered,
                 domBrowser, domContext, snapBrowser, calls, log>>

-----------------------------------------------------------------------------

Next ==
  \/ Fetch
  \/ Parse
  \/ DomImport
  \/ DomLaunch
  \/ DomNewContext
  \/ DomNewPage
  \/ DomGoto
  \/ DomWait
  \/ DomQuery
  \/ DomAttr
  \/ DomEval
  \/ DomContent
  \/ DomScan
  \/ DomRet
  \/ SnapImport
  \/ SnapLaunch
  \/ SnapNewPage
  \/ SnapGoto
  \/ SnapWait
  \/ SnapContent
  \/ SnapRet

Spec == Init /\ [][Next]_vars

-----------------------------------------------------------------------------
(* What the properties speak about, stated over positions of the text *)

\* tokens i..j are a key field holding an absolute URL: the key, the scheme,
\* at least one more character, no quote before the closing one at j
FieldAt(key, s, i, j) ==
  /\ s[i] = key
  /\ j >= i + 3
  /\ s[i + 1] = "http"
  /\ IsQuote(s[j])
  /\ \A k \in (i + 2)..(j - 1) : ~IsQuote(s[k])

HasField(key, s) ==
  \E i \in 1..Len(s) : \E j \in i..Len(s) : FieldAt(key, s, i, j)

\* the URL of the leftmost such field
FirstFieldUrl(key, s) ==
  LET P == {p \in (1..Len(s)) \X (1..Len(s)) : FieldAt(key, s, p[1], p[2])}
      f == CHOOSE p \in P : \A q \in P : p[1] <= q[1]
  IN SubSeq(s, f[1] + 1, f[2] - 1)

\* tokens i..j are a desc field: its text holds no quote and no line break
DescAt(s, i, j) ==
  /\ s[i] = "desc:"
  /\ j > i
  /\ IsQuote(s[j])
  /\ \A k \in (i + 1)..(j - 1) : ~IsQuote(s[k]) /\ s[k] # "nl"

HasDesc(s) ==
  \E i \in 1..Len(s) : \E j \in i..Len(s) : DescAt(s, i, j)

ExpectedTitle(s) ==
  IF HasDesc(s)
  THEN LET P == {p \in (1..Len(s)) \X (1..Len(s)) : DescAt(s, p[1], p[2])}
           f == CHOOSE p \in P : \A q \in P : p[1] <= q[1]
       IN SubSeq(s, f[1] + 1, f[2] - 1)
  ELSE Placeholder

\* tokens i..k are a bare URL of the form scheme, v, one character or more
\* outside blanks and quotes, .mp4
Mp4At(s, i, k) ==
  /\ s[i] = "http"
  /\ k >= i + 3
  /\ s[i + 1] = "v"
  /\ s[k] = ".mp4"
  /\ \A m \in (i + 2)..(k - 1) : IsUrlChar(s[m])

HasMp4(s) ==
  \E i \in 1..Len(s) : \E k \in i..Len(s) : Mp4At(s, i, k)

\* the leftmost, and from there the longest
FirstMp4(s) ==
  LET P == {p \in (1..Len(s)) \X (1..Len(s)) : Mp4At(s, p[1], p[2])}
      f == CHOOSE p \in P :
             \A q \in P : p[1] < q[1] \/ (p[1] = q[1] /\ p[2] >= q[2])
  IN SubSeq(s, f[1], f[2])

HasEscape(s) ==
  \E i \in 1..Len(s) : i < Len(s) /\ s[i] = "bs" /\ s[i + 1] = "u002F"

\* the script scan as the priority order playAddr, srcNoMark, downloadAddr,
\* bare .mp4 URL describes it
ExpectedScan(s) ==
  IF HasField("playAddr:", s) THEN Some(Replace(FirstFieldUrl("playAddr:", s)))
  ELSE IF HasField("srcNoMark:", s) THEN Some(Replace(FirstFieldUrl("srcNoMark:", s)))
  ELSE IF HasField("downloadAddr:", s)
       THEN Some(Replace(FirstFieldUrl("downloadAddr:", s)))
  ELSE IF HasMp4(s) THEN Some(Replace(FirstMp4(s)))
  ELSE NoneSeq

Returned == pc = "done"
Fetched == Returned /\ ~exc.raised
RenderCalls == {"extract_playaddr", "render"}
NonEmptyMessage(r) == r.message.tag = "some" /\ r.message.val # ""

InDomStage ==
  pc \in {"dom_launch", "dom_context", "dom_page", "dom_goto", "dom_wait",
          "dom_query", "dom_attr", "dom_eval", "dom_content", "dom_scan"}
InSnapStage ==
  pc \in {"snap_launch", "snap_page", "snap_goto", "snap_wait", "snap_content"}

-----------------------------------------------------------------------------
(* Properties *)

\* C1: in every returned result, success holds exactly when video_url is a
\* non-empty string, and success is false exactly when message is a non-empty
\* string (the transport-failure path included).
C1_ResultInvariant ==
  Returned =>
    /\ result.success <=> Truthy(result.video_url)
    /\ ~result.success <=> NonEmptyMessage(result)

\* C2: when the static fetch fails with a transport error, the result is a
\* failure whose message is the text of that error, and neither render
\* operation was invoked.
C2_TransportFailure ==
  (Returned /\ exc.raised) =>
    /\ ~result.success
    /\ result.message.tag = "some"
    /\ result.message.val = (IF exc.args = <<>> THEN "" ELSE exc.args[1])
    /\ calls \cap RenderCalls = {}

C2_Witness ==
  Returned /\ exc.raised /\ exc.args = <<"timed out">>

\* C3: a fetched body holding a playAddr field with an absolute URL gives a
\* success whose video_url is the URL of the leftmost such field with every
\* backslash-u002F replaced by a slash, with the title found in the body, and
\* no render stage is invoked.
C3_StaticPlayAddr ==
  (Fetched /\ HasField("playAddr:", html)) =>
    /\ result = Success(ExpectedTitle(html),
                        Some(Replace(FirstFieldUrl("playAddr:", html))))
    /\ ~HasEscape(result.video_url.val)
    /\ calls \cap RenderCalls = {}

C3_Witness ==
  /\ Fetched
  /\ HasField("playAddr:", html)
  /\ HasEscape(FirstFieldUrl("playAddr:", html))
  /\ HasDesc(html)
  /\ result.success

\* C4: for every fetched body, in whatever stage the call ends, the returned
\* title is the text of the desc field of the body, or the placeholder when
\* the body has none.
C4_Title ==
  Fetched => result.title = ExpectedTitle(html)

C6_RenderFailuresAbsorbed ==
  (/\ log \cap {"dom_unavailable", "dom_failed"} # {}
   /\ log \cap {"render_unavailable", "render_failed"} # {}) =>
    /\ pc \in {"snap_ret", "done"}
    /\ ~HasField("playAddr:", html)
    /\ Returned => (/\ ~result.success
                    /\ result.video_url = NoneSeq
                    /\ result.message = Some(ExhaustedMessage))

C6_Witness ==
  Returned /\ "dom_failed" \in log /\ "render_failed" \in log

C8_Non2xxIsTransportFailure ==
  (Fetched /\ status \notin 200..299) =>
    /\ ~result.success
    /\ NonEmptyMessage(result)
    /\ calls = {"fetch"}

\* C9, as claimed: in every successful result, from whichever stage,
\* video_url holds no backslash-u002F.
C9_AlwaysNormalized ==
  (Returned /\ result.success) => ~HasEscape(result.video_url.val)

\* C9, amended: in every successful result that comes from the static
\* playAddr match, the script scan or the snapshot rescan, video_url holds no
\* backslash-u002F (a src read from the video element is returned unchanged).
C9_NormalizedUnlessDomSrc ==
  (Returned /\ result.success /\ ~Truthy(src)) =>
    ~HasEscape(result.video_url.val)

C9_Witness ==
  /\ Returned
  /\ result.success
  /\ "render" \in calls
  /\ HasEscape(rendered.val)
  /\ result.video_url = Some(<<"http", "a", "/", "a">>)

====
